---- MODULE Spec2Model ----
(***************************************************************************)
(* A model of the tagged-object heap of slip-rs (src/src/memory.rs) and of *)
(* the driver that uses it (src/src/main.rs).                              *)
(*                                                                         *)
(* The backing storage is an array of 64-bit words.  A word is modelled    *)
(* as a natural number: a header word is the bitfield of `Header`, a       *)
(* pointer word is an address (counted in words), a scalar word is the     *)
(* number itself.  Addresses of the arena are Base .. Base + Capacity - 1. *)
(***************************************************************************)
EXTENDS Integers, Sequences, FiniteSets

\* ------------------------------------------------------------- bounds

\* Number of words of the slice handed to Memory::new.
Capacity == 6

\* Number of allocate / allocate_raw calls of one run.
MaxAllocs == 2

\* Number of modify calls of one run.
MaxWrites == 2

\* ---------------------------------------------------------- constants

\* Address of the first word of the backing storage (memory.as_ptr()).
Base == 16

\* Width of the tag field of the header.
TagBits == 7

\* The word a never-written slot of zeroed storage holds: the null pointer,
\* which is how an empty slot reads.
EmptyWord == 0

\* What the caller's array may hold when it is handed to Memory::new:
\* zeroes ([0 ; 1000] of the test) or any other words.
InitWords == {0, 9}

\* The value written into a Number (nv.n = 42 of test_pair).
Scalars == {42}

\* The additional_size arguments tried (an isize: negative values included).
AdditionalSizes == {-3, 0, 1}

Addrs == Base .. (Base + Capacity - 1)

\* ------------------------------------------------------ element types

Types == {"Number", "Pair"}

\* Element::size(): the number of payload words.
size(T) == IF T = "Number" THEN 1 ELSE 2

\* Element::tag().
tag(T) == IF T = "Number" THEN 2 ELSE 1

\* The payload fields of the element struct, as word offsets from the
\* header: Number { _hdr, n }, Pair { _hdr, car, cdr }.
fields(T) == IF T = "Number" THEN {1} ELSE {1, 2}

\* Which fields hold a Ptr (car, cdr); the others hold a scalar.
ptr_fields(T) == IF T = "Number" THEN {} ELSE {1, 2}

\* ------------------------------------------------------- header codec

Pow2(n) == 2 ^ n

abs(n) == IF n < 0 THEN -n ELSE n

\* Header::initialize: bit 0 is_raw, bits 1..7 tag, bits 8.. size.  A tag
\* is kept to the width of its field; the sizes of the model are far below
\* the 56 bits of theirs.
initialize(is_raw, t, sz) ==
    (IF is_raw THEN 1 ELSE 0) + 2 * (t % Pow2(TagBits)) + 2 * Pow2(TagBits) * sz

hdr_is_raw(w) == (w % 2) = 1

hdr_tag(w) == (w \div 2) % Pow2(TagBits)

hdr_size(w) == w \div (2 * Pow2(TagBits))

\* ---------------------------------------------------------------- state

VARIABLES
    linear,         \* the backing storage: address -> word
    free_pointer,   \* Memory.free_pointer, an address
    ptrs,           \* the Ptr values allocate has returned, in order, each with
                    \* the type and additional_size it was allocated with
    writes,         \* how many modify calls have run
    pc,             \* "run", "panic" (an unwrap failed), "ub" (a pointer or a
                    \* write left the backing storage), "destroyed"
    last            \* the operation that produced this state

vars == <<linear, free_pointer, ptrs, writes, pc, last>>

\* Memory::used(): the free offset measured from the start of the arena.
used == free_pointer - Base

\* Memory::new: the free pointer is the start of the caller's array, whose
\* words are left as they are.
Init ==
    /\ \E w \in InitWords : linear = [a \in Addrs |-> w]
    /\ free_pointer = Base
    /\ ptrs = <<>>
    /\ writes = 0
    /\ pc = "run"
    /\ last = [op |-> "new"]

\* ------------------------------------------------------------ allocate

\* The free pointer advanced by the payload only, the header word forgotten.
bump_noheader(current, sz) == current + sz

\* current.offset(size + 1)
bump(current, sz) == current + sz + 1

\* Whether the pointer arithmetic and the header write of allocate_ stay
\* inside the backing storage.
in_bounds(current, next) ==
    /\ current \in Addrs
    /\ next >= Base
    /\ next <= Base + Capacity

\* Memory::allocate_: bump the free pointer, write the header at the old
\* free pointer, return a Ptr to it.  There is no capacity check and no
\* error value: when the chunk does not fit, the offset (and possibly the
\* write) leave the array, which is undefined behaviour; the outcomes kept
\* are the plain arithmetic one with the header written where it still
\* lands in the array, and the one where the write is lost.
allocate_(T, additional_size, is_raw) ==
    LET sz == size(T) + additional_size
        current == free_pointer
        next == bump(current, sz)
        hdr == initialize(is_raw, tag(T), abs(sz))
        written == IF current \in Addrs
                   THEN [linear EXCEPT ![current] = hdr] ELSE linear
    IN  /\ pc = "run"
        /\ Len(ptrs) < MaxAllocs
        /\ free_pointer' = next
        /\ ptrs' = Append(ptrs, [ptr |-> current, ty |-> T,
                                 additional_size |-> additional_size])
        /\ last' = [op |-> "allocate", i |-> Len(ptrs) + 1, result |-> "Ptr"]
        /\ UNCHANGED writes
        /\ IF in_bounds(current, next)
           THEN /\ linear' = written
                /\ pc' = "run"
           ELSE /\ linear' \in {written, linear}
                /\ pc' = "ub"

allocate(T, additional_size) == allocate_(T, additional_size, FALSE)

allocate_raw(T, additional_size) == allocate_(T, additional_size, TRUE)

\* ---------------------------------------------------------------- cast

\* Ptr::cast / Ptr::cast_mut: Ok exactly when the tag of the header the
\* pointer addresses is T's tag.
cast(mem, p, T) == hdr_tag(mem[p]) = tag(T)

\* A store that reaches a copy of the element and not the chunk.
store_lost(mem, a, w) == mem

\* The closure of modify writes through the &mut T that cast_mut made of the
\* chunk's own address: the word at a becomes w.
store(mem, a, w) == [mem EXCEPT ![a] = w]

\* Ptr::modify for one field of the element: cast_mut::<T>().unwrap(), then
\* the closure stores w into the field.
modify(i, f, w) ==
    LET p == ptrs[i].ptr
        T == ptrs[i].ty
    IN  /\ pc = "run"
        /\ writes < MaxWrites
        /\ f \in fields(T)
        /\ writes' = writes + 1
        /\ last' = [op |-> "modify", i |-> i, field |-> f, word |-> w]
        /\ UNCHANGED <<free_pointer, ptrs>>
        /\ IF ~cast(linear, p, T)
           THEN /\ pc' = "panic"
                /\ UNCHANGED linear
           ELSE IF p + f \in Addrs
           THEN /\ linear' = store(linear, p + f, w)
                /\ pc' = "run"
           ELSE /\ UNCHANGED linear
                /\ pc' = "ub"

\* Reading car / cdr of the element behind Ptr i, as test_pair does:
\* cast::<T>().unwrap(), then the field, which is a bare Ptr.  Nothing marks a
\* slot as empty and nothing is checked: the caller is handed a Ptr holding
\* whatever word the slot holds.
read(i, f) ==
    LET p == ptrs[i].ptr
        T == ptrs[i].ty
    IN  /\ pc = "run"
        /\ f \in ptr_fields(T)
        /\ UNCHANGED <<linear, free_pointer, ptrs, writes>>
        /\ IF ~cast(linear, p, T)
           THEN /\ pc' = "panic"
                /\ last' = [op |-> "read", i |-> i, field |-> f,
                            result |-> "Err"]
           ELSE IF p + f \in Addrs
           THEN /\ pc' = "run"
                /\ last' = [op |-> "read", i |-> i, field |-> f,
                            result |-> "Ptr", word |-> linear[p + f]]
           ELSE /\ pc' = "ub"
                /\ last' = [op |-> "read", i |-> i, field |-> f,
                            result |-> "ub"]

\* The words a caller stores into field f of a T: a clone of a Ptr it holds
\* for car / cdr, a number for n.
field_words(T, f) ==
    IF f \in ptr_fields(T)
    THEN {ptrs[j].ptr : j \in 1..Len(ptrs)}
    ELSE Scalars

\* ------------------------------------------------------------- collect

\* The word at address a, for a view that may follow any word as a pointer.
word(mem, a) == IF a \in Addrs THEN mem[a] ELSE EmptyWord

\* The chunks the traced slots of the chunk at a refer to: the car and cdr of
\* a chunk that carries Pair's tag and is not raw.
cells(mem, a) ==
    IF a \in Addrs /\ ~hdr_is_raw(mem[a])
    THEN UNION {{word(mem, a + f) : f \in ptr_fields(T)} \cap Addrs :
                T \in {S \in Types : cast(mem, a, S)}}
    ELSE {}

RECURSIVE closure(_, _, _)
closure(mem, seen, n) ==
    IF n = 0 THEN seen
    ELSE closure(mem, seen \cup UNION {cells(mem, a) : a \in seen}, n - 1)

\* The chunks reachable from a root through traced slots.
reachable(mem, root) == closure(mem, {root}, Capacity)

\* The words of the chunk at a: the header and the payload its size field
\* counts.
chunk_words(mem, a) == 1 + hdr_size(word(mem, a))

\* The chunks of an arena, found by walking it from its start, each header's
\* size leading to the next header, up to the free pointer.
RECURSIVE walk(_, _, _, _)
walk(mem, fp, a, n) ==
    IF n = 0 \/ a >= fp \/ a \notin Addrs THEN {}
    ELSE {a} \cup walk(mem, fp, a + chunk_words(mem, a), n - 1)

chunk_starts(mem, fp) == walk(mem, fp, Base, Capacity)

RECURSIVE sum_words(_, _)
sum_words(mem, S) ==
    IF S = {} THEN 0
    ELSE LET a == CHOOSE x \in S : TRUE
         IN  chunk_words(mem, a) + sum_words(mem, S \ {a})

\* The words the chunks reachable from a root take, each chunk counted once.
live_words(mem, root) == sum_words(mem, reachable(mem, root))

\* A collector that moves the root's chunk to the free pointer and returns
\* its new address, but rewrites no slot that referred to the old one.
collect_norewrite(mem, fp, root) ==
    LET n == chunk_words(mem, root)
    IN  IF fp + n <= Base + Capacity
        THEN [linear |-> [a \in Addrs |->
                            IF a >= fp /\ a < fp + n
                            THEN word(mem, root + (a - fp)) ELSE mem[a]],
              free_pointer |-> fp + n,
              root |-> fp]
        ELSE [linear |-> mem, free_pointer |-> fp, root |-> root]

\* A collector that takes the header's size for the whole chunk and so
\* leaves the last payload word of the root behind (Empty).
collect_short(mem, fp, root) ==
    LET e == root + hdr_size(word(mem, root))
    IN  [linear |-> [a \in Addrs |-> IF a = e /\ a # root THEN EmptyWord ELSE mem[a]],
         free_pointer |-> fp,
         root |-> root]

\* A collector that scans the payload of the root whatever its raw flag says,
\* and rewrites every payload word that is an address of the arena as if it
\* had forwarded a chunk to the free pointer.
collect_scanraw(mem, fp, root) ==
    LET hits == {a \in Addrs : /\ a > root
                               /\ a <= root + hdr_size(word(mem, root))
                               /\ mem[a] \in Addrs}
    IN  [linear |-> [a \in Addrs |-> IF a \in hits THEN fp ELSE mem[a]],
         free_pointer |-> fp,
         root |-> root]

\* Memory::collect: the body is empty; the arena, the free pointer and the
\* root are what they were.
collect(mem, fp, root) ==
    [linear |-> mem, free_pointer |-> fp, root |-> root]

\* A caller runs a collection pass with the element behind Ptr i as the
\* root (&mut T, obtained by cast_mut).
Collect(i) ==
    LET p == ptrs[i].ptr
        r == collect(linear, free_pointer, p)
    IN  /\ pc = "run"
        /\ cast(linear, p, ptrs[i].ty)
        /\ linear' = r.linear
        /\ free_pointer' = r.free_pointer
        /\ last' = [op |-> "collect", i |-> i, root |-> r.root, result |-> "unit"]
        /\ UNCHANGED <<ptrs, writes, pc>>

\* The address of an element that lives outside the arena's storage, such as
\* one on the caller's stack.
Foreign == Base + Capacity + 1

\* A caller runs a collection pass with a root that is no chunk of this
\* arena: collect takes any &mut T with T: Element, and nothing ties the
\* reference to the storage.
CollectForeign ==
    LET r == collect(linear, free_pointer, Foreign)
    IN  /\ pc = "run"
        /\ linear' = r.linear
        /\ free_pointer' = r.free_pointer
        /\ last' = [op |-> "collect_foreign", root |-> r.root,
                    result |-> "unit"]
        /\ UNCHANGED <<ptrs, writes, pc>>

\* Memory::destroy: consumes the memory; no Ptr outlives it.
destroy ==
    /\ pc = "run"
    /\ pc' = "destroyed"
    /\ last' = [op |-> "destroy"]
    /\ UNCHANGED <<linear, free_pointer, ptrs, writes>>

Next ==
    \/ \E T \in Types, a \in AdditionalSizes : allocate(T, a)
    \/ \E T \in Types, a \in AdditionalSizes : allocate_raw(T, a)
    \/ \E i \in 1..Len(ptrs), f \in {1, 2} :
          \E w \in field_words(ptrs[i].ty, f) : modify(i, f, w)
    \/ \E i \in 1..Len(ptrs), f \in {1, 2} : read(i, f)
    \/ \E i \in 1..Len(ptrs) : Collect(i)
    \/ CollectForeign
    \/ destroy

Spec == Init /\ [][Next]_vars

\* ------------------------------------------------------- claim helpers

\* The word count an allocation asks for: the header word, the element's
\* payload words and the additional words.
requested_words(h) == 1 + size(h.ty) + h.additional_size

RECURSIVE sum_requested(_)
sum_requested(hs) ==
    IF hs = <<>> THEN 0
    ELSE requested_words(Head(hs)) + sum_requested(Tail(hs))

\* Every allocation so far asked for no fewer words than its element has
\* fields: the arena is a row of whole chunks.  The claims about a pass over
\* an arena are stated for such arenas.
whole_chunks == \A i \in 1..Len(ptrs) : ptrs[i].additional_size >= 0

\* One step of walking two arenas side by side: from a pair at a (before)
\* and what stands for it at b (after), to what their car and their cdr
\* hold, for the slots that held the address of a chunk before.
fwd_step(old, new, S) ==
    UNION {{<<word(old, x[1] + f), word(new, x[2] + f)>> :
              f \in {g \in ptr_fields("Pair") : word(old, x[1] + g) \in Addrs}} :
           x \in {y \in S : /\ cast(old, y[1], "Pair")
                            /\ y[2] \in Addrs
                            /\ cast(new, y[2], "Pair")}}

\* All <<address before, word after>> found by walking car / cdr from the
\* root before and from the root after, in step.
RECURSIVE forwarding(_, _, _)
forwarding(old, new, S) ==
    LET T == S \cup fwd_step(old, new, S)
    IN  IF T = S THEN S ELSE forwarding(old, new, T)

\* fwd_step through traced pairs only: a raw pair's slots are not followed.
traced_step(old, new, S) ==
    fwd_step(old, new, {x \in S : x[1] \in Addrs /\ ~hdr_is_raw(old[x[1]])})

\* All <<address before, word after>> a pass reaches from the root through
\* the slots of chunks that are not raw.
RECURSIVE traced_forwarding(_, _, _)
traced_forwarding(old, new, S) ==
    LET T == S \cup traced_step(old, new, S)
    IN  IF T = S THEN S ELSE traced_forwarding(old, new, T)

\* The address a collection pass was given as its root, in the state before
\* the pass (last' names the Ptr).
old_root == ptrs[last'.i].ptr

\* Bijections from R onto N.
Bijections(R, N) ==
    {f \in [R -> N] : /\ \A x, y \in R : f[x] = f[y] => x = y
                      /\ \A z \in N : \E x \in R : f[x] = z}

\* f carries the chunk at a (old arena) onto the chunk at f[a] (new arena).
same_chunk(f, R, old, new, a) ==
    /\ hdr_tag(old[a]) = hdr_tag(new[f[a]])
    /\ hdr_is_raw(old[a]) = hdr_is_raw(new[f[a]])
    /\ \A T \in Types : cast(old, a, T) =>
          \A k \in fields(T) :
             LET w == word(old, a + k)
                 v == word(new, f[a] + k)
             IN  IF k \in ptr_fields(T) /\ ~hdr_is_raw(old[a])
                 THEN /\ (w = EmptyWord => v = EmptyWord)
                      /\ (w \in R => v = f[w])
                 ELSE v = w

\* --------------------------------------------------------------- claims

\* C1: for every handle allocate::<T> / allocate_raw::<T> has returned, the
\* header it addresses carries T's tag, cast::<T> succeeds, and cast::<S>
\* fails for every hosted type S whose tag differs from T's.
C1_TagAndCastOfEveryHandle ==
    pc = "run" =>
       \A i \in 1..Len(ptrs) :
          LET p == ptrs[i].ptr
              T == ptrs[i].ty
          IN  /\ hdr_tag(linear[p]) = tag(T)
              /\ cast(linear, p, T)
              /\ \A S \in Types : tag(S) # tag(T) => ~cast(linear, p, S)

\* C2: a collection pass yields an arena whose chunks are in bijection with
\* the chunks reachable from the root before the pass, the bijection keeping
\* tag, raw flag and scalar payload, carrying Empty to Empty and an edge to
\* x onto an edge to the image of x, and the root onto its image.
C2_CollectionIsomorphic ==
    [][(last'.op = "collect" /\ whole_chunks) =>
         LET R == reachable(linear, old_root)
             N == chunk_starts(linear', free_pointer')
         IN  \E f \in Bijections(R, N) :
                /\ last'.root = f[old_root]
                /\ \A a \in R : same_chunk(f, R, linear, linear', a)]_vars

C5_GarbageReclaimed ==
    [][(last'.op = "collect" /\ whole_chunks) =>
         /\ Cardinality(chunk_starts(linear', free_pointer'))
               = Cardinality(reachable(linear, old_root))
         /\ free_pointer' - Base = live_words(linear, old_root)]_vars

\* C6: an allocate call whose chunk does not fit reports OutOfMemory and
\* leaves the free offset and every word of the storage as they were.
C6_AllocateFailsCleanly ==
    [][(/\ last'.op = "allocate"
        /\ whole_chunks'
        /\ used + requested_words(ptrs'[last'.i]) > Capacity) =>
         /\ last'.result = "OutOfMemory"
         /\ UNCHANGED <<linear, free_pointer>>]_vars

C8_CollectAtomic ==
    [][(last'.op = "collect" /\ whole_chunks) =>
         IF live_words(linear, old_root) > Capacity
         THEN /\ last'.result = "OutOfMemory"
              /\ last'.root = old_root
              /\ UNCHANGED <<linear, free_pointer>>
         ELSE /\ last'.result # "OutOfMemory"
              /\ chunk_starts(linear', free_pointer')
                    = reachable(linear', last'.root)]_vars

\* C9: a handle the last collection pass did not reach from its root is
\* never used successfully afterwards (here: by modify, whose cast_mut
\* succeeds and whose write goes through).
C9_NoUseOfUnrootedHandle ==
    [][(/\ last.op = "collect"
        /\ whole_chunks
        /\ last'.op = "modify"
        /\ pc' = "run") =>
         ptrs[last'.i].ptr \in reachable(linear, last.root)]_vars

\* C10: right after allocate returns, every pointer slot of the new chunk
\* is Empty (stated for the calls that ask for no fewer words than the
\* element has fields, so that the slots are the chunk's own).
C10_CellsEmptyAfterAllocate ==
    (last.op = "allocate" /\ pc = "run" /\ ptrs[last.i].additional_size >= 0) =>
       \A f \in ptr_fields(ptrs[last.i].ty) :
          word(linear, ptrs[last.i].ptr + f) = EmptyWord

\* C11: a word stored into a field through a handle (a Ptr into car or cdr,
\* a number into n) is the word read from that field afterwards, through
\* that handle and through every other handle with the same address, and
\* the store changes no other word: a slot set earlier keeps what it was
\* given, so two slots set to the same handle hold equal addresses.
C11_StoreThenRead ==
    [][(last'.op = "modify" /\ pc' = "run") =>
         LET a == ptrs[last'.i].ptr + last'.field
         IN  /\ \A j \in 1..Len(ptrs) :
                   ptrs[j].ptr = ptrs[last'.i].ptr =>
                      word(linear', ptrs[j].ptr + last'.field) = last'.word
             /\ \A b \in Addrs \ {a} : linear'[b] = linear[b]]_vars

\* C11 witness (test_pair): the second of two stores has given car and cdr
\* of a pair the address of one Number.
C11_Witness ==
    /\ last.op = "modify"
    /\ pc = "run"
    /\ writes = 2
    /\ ptrs[last.i].ty = "Pair"
    /\ cast(linear, ptrs[last.i].ptr, "Pair")
    /\ word(linear, ptrs[last.i].ptr + 1) = last.word
    /\ word(linear, ptrs[last.i].ptr + 2) = last.word
    /\ last.word \in Addrs \ {ptrs[last.i].ptr}
    /\ cast(linear, last.word, "Number")

\* C12: reading car or cdr of a pair whose slots were never set (the read
\* follows the pair's allocation directly) fails with EmptyCellAccess and
\* hands the caller no handle.
C12_EmptySlotReadFails ==
    [][(/\ last.op = "allocate"
        /\ pc = "run"
        /\ ptrs[last.i].ty = "Pair"
        /\ ptrs[last.i].additional_size >= 0
        /\ last'.op = "read"
        /\ last'.i = last.i)
       => last'.result = "EmptyCellAccess"]_vars

\* C13: a collection pass whose root lies outside the arena reports
\* InvalidRoot, and leaves the arena's words and free offset as they were.
C13_InvalidRootReported ==
    [][last'.op = "collect_foreign" =>
         /\ last'.result = "InvalidRoot"
         /\ linear' = linear
         /\ free_pointer' = free_pointer]_vars

\* C14: the free offset stays within 0..capacity, and every allocate either
\* leaves it strictly greater than it was, or fails and leaves it as it was;
\* it never decreases.
C14_FreeOffsetMonotone ==
    [][(last'.op = "allocate" /\ pc' = "run") =>
         /\ used' >= 0
         /\ used' <= Capacity
         /\ \/ used' > used
            \/ last'.result = "OutOfMemory" /\ used' = used]_vars

\* C15: the chunks tile the used region: every word below the free offset
\* lies in the range of exactly one chunk (its header, the words of its
\* element type and its additional words), and each chunk starts with the
\* tag and size its own allocation wrote.
C15_ChunksTile ==
    pc = "run" =>
       LET range(i) == {a \in Addrs :
                          /\ a >= ptrs[i].ptr
                          /\ \/ a <= ptrs[i].ptr + size(ptrs[i].ty)
                             \/ a < ptrs[i].ptr + requested_words(ptrs[i])}
       IN  /\ \A a \in Base..(free_pointer - 1) :
                 Cardinality({i \in 1..Len(ptrs) : a \in range(i)}) = 1
           /\ \A i \in 1..Len(ptrs) :
                 /\ hdr_tag(linear[ptrs[i].ptr]) = tag(ptrs[i].ty)
                 /\ hdr_size(linear[ptrs[i].ptr])
                       = abs(size(ptrs[i].ty) + ptrs[i].additional_size)

\* C16: the size in the header an allocation writes is the number of words
\* by which that allocation advanced the free offset, the header word
\* included, and so at least 1 (stated for the allocations that ask for no
\* fewer words than the element type has).
C16_HeaderSizeIsAdvance ==
    [][(/\ last'.op = "allocate"
        /\ pc' = "run"
        /\ ptrs'[last'.i].additional_size >= 0) =>
         /\ hdr_size(linear'[free_pointer]) = free_pointer' - free_pointer
         /\ hdr_size(linear'[free_pointer]) >= 1]_vars

C18_ScannedArenaConsistent ==
    [][(last'.op = "collect" /\ whole_chunks) =>
         LET N == chunk_starts(linear', free_pointer')
         IN  /\ last'.root \in N
             /\ \A a \in N :
                   (cast(linear', a, "Pair") /\ ~hdr_is_raw(linear'[a])) =>
                      \A f \in ptr_fields("Pair") :
                         \/ word(linear', a + f) = EmptyWord
                         \/ word(linear', a + f) \in N]_vars

\* C19: an allocation whose payload word count is negative fails with an
\* error and writes no header: no header ever holds a size whose sign was
\* stripped.
C19_NegativeSizeRejected ==
    [][(/\ last'.op = "allocate"
        /\ pc' = "run"
        /\ size(ptrs'[last'.i].ty) + ptrs'[last'.i].additional_size < 0) =>
         /\ last'.result = "Err"
         /\ linear' = linear]_vars

\* C20: an allocate that succeeds leaves the header and the payload words of
\* every chunk allocated before it as they were.
C20_AllocateFrame ==
    [][(last'.op = "allocate" /\ pc' = "run") =>
         \A j \in 1..Len(ptrs) :
            \A k \in 0..size(ptrs[j].ty) :
               word(linear', ptrs[j].ptr + k) = word(linear, ptrs[j].ptr + k)]_vars

====
